---- MODULE Spec2Model ----
(***************************************************************************)
(* Model of the EmailBot autoresponder (src/main.py): the mailbox polling  *)
(* loop check_email, the reply generator generate_response with its        *)
(* helpers (generate_airbnb_link, find_matching_listings) and send_email.  *)
(*                                                                         *)
(* Text is a sequence of string atoms; concatenation is \o.  A decoded     *)
(* message body is a sequence of code points, a payload a sequence of      *)
(* bytes.                                                                  *)
(***************************************************************************)
EXTENDS Integers, Sequences, FiniteSets, TLC

VARIABLES
    inbox,          \* the mailbox: message i is the one with sequence number i
    seen,           \* sequence numbers carrying the \Seen flag
    pc,             \* position of the process: idle, loop, generate, awaiting, deliver, crashed
    batch,          \* messages[0].split(): the numbers the UNSEEN search returned
    idx,            \* position of the for loop in batch
    cur,            \* from_email, subject, body of the message being processed
    reply,          \* the text generate_response returned
    imapOpen,       \* the IMAP connection of this cycle is logged in
    log,            \* what the process printed in this poll cycle, in order
    outbox,         \* the messages smtp.send_message accepted in this poll cycle
    handed,         \* per message: calls of generate_response in this poll cycle
    sends,          \* per message: calls of send_email in this poll cycle
    svc,            \* per message: what the retrieval and generation services did
    request,        \* the request in flight at client.chat.completions.create
    listings_data,  \* the catalog loaded from listings.json
    matchArgs,      \* the arguments of the last find_matching_listings call
    matchResult,    \* the value the last find_matching_listings call returned
    smtp,           \* SMTP connections opened and closed in this poll cycle
    passes,         \* per message: calls of generate_response since the process started
    vectorstore,    \* the knowledge index loaded by FAISS.load_local
    env,            \* what the process found at startup: key, catalog file, index
    linkArgs,       \* the arguments of the last generate_airbnb_link call
    linkResult      \* the value the last generate_airbnb_link call returned

vars == <<inbox, seen, pc, batch, idx, cur, reply, imapOpen, log, outbox,
          handed, sends, svc, request, listings_data, matchArgs, matchResult,
          smtp, passes, vectorstore, env, linkArgs, linkResult>>

mailVars == <<inbox, seen, pc, batch, idx, cur, reply, imapOpen, log, outbox,
              handed, sends, svc, request, smtp, passes>>

\* what is loaded or read once, when the process starts
startupVars == <<vectorstore, env>>

linkVars == <<linkArgs, linkResult>>

----------------------------------------------------------------------------
(* Bounds of the model *)

\* messages that arrive in the mailbox during a run
MaxMsgs == 3

\* records in a catalog drawn for find_matching_listings
MaxCatalog == 4

----------------------------------------------------------------------------
(* Sequences and text *)

Range(s) == {s[i] : i \in 1..Len(s)}

RECURSIVE Concat(_)
\* the concatenation of a sequence of sequences
Concat(ss) == IF ss = <<>> THEN <<>> ELSE Head(ss) \o Concat(Tail(ss))

RECURSIVE Join(_, _)
\* sep.join(items), items a sequence of texts
Join(items, sep) ==
    IF items = <<>> THEN <<>>
    ELSE IF Len(items) = 1 THEN Head(items)
    ELSE Head(items) \o sep \o Join(Tail(items), sep)

\* the positions of s at which atom a stands
Positions(s, a) == {i \in 1..Len(s) : s[i] = a}

Whitespace == {" ", "\n"}

RECURSIVE LStrip(_)
LStrip(s) == IF s # <<>> /\ Head(s) \in Whitespace THEN LStrip(Tail(s)) ELSE s

RECURSIVE RStrip(_)
RStrip(s) ==
    IF s # <<>> /\ s[Len(s)] \in Whitespace THEN RStrip(SubSeq(s, 1, Len(s) - 1)) ELSE s

\* str.strip()
Strip(s) == RStrip(LStrip(s))

----------------------------------------------------------------------------
(* bytes.decode(): UTF-8, strict.  One- and two-byte forms.                *)

DecodeError == [ok |-> FALSE, text |-> <<>>]

RECURSIVE Utf8Decode(_)
Utf8Decode(bytes) ==
    IF bytes = <<>> THEN [ok |-> TRUE, text |-> <<>>]
    ELSE LET b == Head(bytes) IN
         IF b < 128
         THEN LET rest == Utf8Decode(Tail(bytes)) IN
              IF rest.ok THEN [ok |-> TRUE, text |-> <<b>> \o rest.text]
              ELSE DecodeError
         ELSE IF b >= 194 /\ b <= 223 /\ Len(bytes) >= 2
                 /\ bytes[2] >= 128 /\ bytes[2] <= 191
         THEN LET rest == Utf8Decode(Tail(Tail(bytes))) IN
              IF rest.ok
              THEN [ok |-> TRUE,
                    text |-> <<(b - 192) * 64 + (bytes[2] - 128)>> \o rest.text]
              ELSE DecodeError
         ELSE DecodeError

----------------------------------------------------------------------------
(* Messages as email.message_from_bytes parses them: a tree of parts.      *)

Leaf(ctype, payload) ==
    [ctype |-> ctype, multipart |-> FALSE, payload |-> payload, children |-> <<>>]

Container(ctype, children) ==
    [ctype |-> ctype, multipart |-> TRUE, payload |-> <<>>, children |-> children]

RECURSIVE Walk(_)
\* Message.walk(): the part itself, then its subparts, depth first
Walk(part) ==
    <<part>> \o
    (IF part.multipart
     THEN Concat([i \in 1..Len(part.children) |-> Walk(part.children[i])])
     ELSE <<>>)

\* the text/plain parts of a message, in walk order
PlainParts(msg) == SelectSeq(Walk(msg.root), LAMBDA p : p.ctype = "text/plain")

RECURSIVE WalkBody(_, _)
\* the for loop of lines 129-131 over the remaining parts, body so far
WalkBody(parts, body) ==
    IF parts = <<>> THEN [ok |-> TRUE, text |-> body]
    ELSE IF Head(parts).ctype = "text/plain"
    THEN LET d == Utf8Decode(Head(parts).payload) IN
         IF d.ok THEN WalkBody(Tail(parts), d.text) ELSE DecodeError
    ELSE WalkBody(Tail(parts), body)

\* the first text/html part taken when a multipart message has no text/plain
ExtractBodyHtmlFallback(msg) ==
    LET html == SelectSeq(Walk(msg.root), LAMBDA p : p.ctype = "text/html") IN
    IF ~msg.root.multipart THEN Utf8Decode(msg.root.payload)
    ELSE IF PlainParts(msg) = <<>> /\ html # <<>> THEN Utf8Decode(html[1].payload)
    ELSE WalkBody(Walk(msg.root), <<>>)

\* lines 126-133: the body of a fetched message, or the decode error raised
ExtractBody(msg) ==
    IF msg.root.multipart
    THEN WalkBody(Walk(msg.root), <<>>)
    ELSE Utf8Decode(msg.root.payload)

\* the messages that may arrive
PlainMsg ==
    [from |-> "alice@example.com", subject |-> <<"Checkout time?">>,
     root |-> Leaf("text/plain", <<72, 195, 169>>)]

UndecodableMsg ==
    [from |-> "bob@example.com", subject |-> <<"Caf", "e">>,
     root |-> Leaf("text/plain", <<99, 233>>)]

TwoPlainMsg ==
    [from |-> "carol@example.com", subject |-> <<"Re: ", "Booking">>,
     root |-> Container("multipart/mixed",
                <<Container("multipart/alternative",
                    <<Leaf("text/plain", <<65>>), Leaf("text/html", <<60, 65, 62>>)>>),
                  Leaf("text/plain", <<66>>)>>)]

HtmlOnlyMsg ==
    [from |-> "dave@example.com", subject |-> <<"Pets">>,
     root |-> Container("multipart/alternative", <<Leaf("text/html", <<60, 62>>)>>)]

Messages == {PlainMsg, UndecodableMsg, TwoPlainMsg, HtmlOnlyMsg}

----------------------------------------------------------------------------
(* Dates: datetime.date, timedelta and str(date)                           *)

IsLeap(y) == (y % 4 = 0 /\ y % 100 # 0) \/ y % 400 = 0

DaysInMonth(y, m) ==
    IF m = 2 THEN (IF IsLeap(y) THEN 29 ELSE 28)
    ELSE IF m \in {4, 6, 9, 11} THEN 30 ELSE 31

NextDay(date) ==
    IF date.d < DaysInMonth(date.y, date.m) THEN [date EXCEPT !.d = date.d + 1]
    ELSE IF date.m < 12 THEN [date EXCEPT !.m = date.m + 1, !.d = 1]
    ELSE [y |-> date.y + 1, m |-> 1, d |-> 1]

RECURSIVE AddDays(_, _)
\* date + timedelta(days=n)
AddDays(date, n) == IF n = 0 THEN date ELSE AddDays(NextDay(date), n - 1)

DigitChar == <<"0", "1", "2", "3", "4", "5", "6", "7", "8", "9">>

RECURSIVE Pad(_, _)
\* the decimal digits of n, zero-padded to width w
Pad(n, w) == IF w = 0 THEN <<>> ELSE Pad(n \div 10, w - 1) \o <<DigitChar[(n % 10) + 1]>>

\* str(date): YYYY-MM-DD
IsoFormat(date) == Pad(date.y, 4) \o <<"-">> \o Pad(date.m, 2) \o <<"-">> \o Pad(date.d, 2)

\* the days datetime.today() may return
Dates == {[y |-> 2024, m |-> 2, d |-> 27], [y |-> 2025, m |-> 12, d |-> 29]}

\* line 72
CheckinOffset == 3

\* line 73
CheckoutOffset == 6

----------------------------------------------------------------------------
(* urllib.parse.quote and generate_airbnb_link                             *)

UpperLetters == <<"A", "B", "C", "D", "E", "F", "G", "H", "I", "J", "K", "L", "M",
                  "N", "O", "P", "Q", "R", "S", "T", "U", "V", "W", "X", "Y", "Z">>

LowerLetters == <<"a", "b", "c", "d", "e", "f", "g", "h", "i", "j", "k", "l", "m",
                  "n", "o", "p", "q", "r", "s", "t", "u", "v", "w", "x", "y", "z">>

\* the characters quote never escapes, and its default safe="/"
QuoteSafe ==
    Range(UpperLetters) \cup Range(LowerLetters) \cup Range(DigitChar)
        \cup {"_", ".", "-", "~"} \cup {"/"}

\* the UTF-8 bytes of the characters outside QuoteSafe that area names use
CharBytes(c) ==
    CASE c = " " -> <<32>>
      [] c = "#" -> <<35>>
      [] c = "%" -> <<37>>
      [] c = "&" -> <<38>>
      [] c = "/" -> <<47>>
      [] c = "?" -> <<63>>
      [] OTHER -> <<195, 169>>

HexChar == <<"0", "1", "2", "3", "4", "5", "6", "7", "8", "9",
             "A", "B", "C", "D", "E", "F">>

PercentByte(b) == <<"%", HexChar[(b \div 16) + 1], HexChar[(b % 16) + 1]>>

QuoteChar(c) ==
    IF c \in QuoteSafe THEN <<c>>
    ELSE LET bs == CharBytes(c) IN Concat([i \in 1..Len(bs) |-> PercentByte(bs[i])])

\* quote(area)
Quote(s) == Concat([i \in 1..Len(s) |-> QuoteChar(s[i])])

\* str(n) for the guest counts of the link
Decimal(n) == IF n < 10 THEN Pad(n, 1) ELSE Pad(n, 2)

\* lines 40-46
generate_airbnb_link(area, checkin, checkout, adults, children, infants, pets) ==
    <<"https://www.airbnb.com/s/Cairo--">> \o Quote(area) \o <<"/homes">>
        \o <<"?checkin=">> \o IsoFormat(checkin)
        \o <<"&checkout=">> \o IsoFormat(checkout)
        \o <<"&adults=">> \o Decimal(adults) \o <<"&children=">> \o Decimal(children)
        \o <<"&infants=">> \o Decimal(infants) \o <<"&pets=">> \o Decimal(pets)

Zamalek == <<"Z", "a", "m", "a", "l", "e", "k">>
Maadi == <<"M", "a", "a", "d", "i">>
GardenCity == <<"G", "a", "r", "d", "e", "n", " ", "C", "i", "t", "y">>

\* the keys of the links dict, in insertion order (lines 78-82)
Areas == <<Zamalek, Maadi, GardenCity>>

\* the longest area name drawn for a call of generate_airbnb_link
MaxAreaLen == 3

\* the characters of the area names drawn: a letter, a space, the path
\* separator, a query delimiter and an accented letter
AreaChars == {"a", " ", "/", "?", "U+00E9"}

AreaNames == UNION {[1..n -> AreaChars] : n \in 1..MaxAreaLen}

\* the lengths of stay drawn
Nights == {1, 3}

----------------------------------------------------------------------------
(* The listing catalog and find_matching_listings                          *)

LowerChar(c) ==
    IF \E i \in 1..26 : UpperLetters[i] = c
    THEN LowerLetters[CHOOSE i \in 1..26 : UpperLetters[i] = c]
    ELSE c

\* str.lower()
Lower(s) == [i \in 1..Len(s) |-> LowerChar(s[i])]

Cairo == <<"C", "a", "i", "r", "o">>

ListingNames == <<"Nile View", "Khan Loft", "Garden Flat", "Old Town", "Roof Studio">>

ListingRatings == <<"4.1", "4.3", "4.5", "4.7", "4.9">>

\* record number i of a catalog, with the fields that vary
Listing(i, hint, guests, hasUrl) ==
    [id |-> DigitChar[i + 1], name |-> ListingNames[i], rating |-> ListingRatings[i],
     city_hint |-> hint, guests |-> guests,
     has_url |-> hasUrl,
     url |-> IF hasUrl THEN <<"https://stay.example/", DigitChar[i + 1]>> ELSE <<>>]

CityHints == {<<"C", "A", "I", "R", "O">>, <<"G", "i", "z", "a">>}

GuestCapacities == {4, 6}

\* the catalogs json.load may return: record i carries id i, and every other
\* record has no url field
Catalogs ==
    UNION {
        {[i \in 1..n |-> Listing(i, h[i], g[i], i % 2 = 0)] :
            h \in [1..n -> CityHints], g \in [1..n -> GuestCapacities]}
        : n \in 0..MaxCatalog}

\* line 65
MatchLimit == 3

\* line 62
Matches(listing, city, guests) ==
    Lower(listing.city_hint) = Lower(city) /\ listing.guests >= guests

\* lines 63-64
FormatListing(listing) ==
    LET url == IF listing.has_url /\ listing.url # <<>>
               THEN listing.url
               ELSE <<"https://anqakhans.holidayfuture.com/listings/", listing.id>>
    IN  <<listing.name, " (star ", listing.rating, ")\n">> \o url

RECURSIVE FindLoopOffByOne(_, _, _, _)
\* the loop with the limit tested by > instead of >=
FindLoopOffByOne(rest, results, city, guests) ==
    IF rest = <<>> THEN results
    ELSE LET r == IF Matches(Head(rest), city, guests)
                  THEN Append(results, FormatListing(Head(rest)))
                  ELSE results
         IN  IF Len(r) > MatchLimit THEN r
             ELSE FindLoopOffByOne(Tail(rest), r, city, guests)

RECURSIVE FindLoop(_, _, _, _)
\* the for loop of lines 61-66 over the remaining records
FindLoop(rest, results, city, guests) ==
    IF rest = <<>> THEN results
    ELSE LET r == IF Matches(Head(rest), city, guests)
                  THEN Append(results, FormatListing(Head(rest)))
                  ELSE results
         IN  IF Len(r) >= MatchLimit THEN r
             ELSE FindLoop(Tail(rest), r, city, guests)

\* the catalog sorted in place, best rated first, before the search
CatalogSortedInPlace == [i \in 1..Len(listings_data) |-> listings_data[Len(listings_data) + 1 - i]]

\* lines 59-67: the catalog after find_matching_listings ran; the loop reads
\* the records and assigns none
CatalogAfterMatching == listings_data

\* lines 59-67
find_matching_listings(city, guests) == FindLoop(listings_data, <<>>, city, guests)

----------------------------------------------------------------------------
(* The knowledge index and vectorstore.similarity_search                   *)

\* the passages of the persisted index; terms are the code points a passage is about
KnowledgeBase ==
    <<[page_content |-> <<"Checkout is at 11:00 AM">>, terms |-> {72, 233}],
      [page_content |-> <<"Pets are welcome">>, terms |-> {66}],
      [page_content |-> <<"Airport pickup on request">>, terms |-> {65, 66}],
      [page_content |-> <<"Quiet hours after 10 PM">>, terms |-> {}]>>

\* line 75: k=3
TopK == 3

\* the relevance of passage i to a query
Score(query, i) == Cardinality(vectorstore[i].terms \cap Range(query))

\* passage i ranks before passage j: higher score first, then index order
RanksBefore(query, i, j) ==
    \/ Score(query, i) > Score(query, j)
    \/ Score(query, i) = Score(query, j) /\ i < j

RECURSIVE Ranked(_, _)
\* the passages of todo in rank order
Ranked(query, todo) ==
    IF todo = {} THEN <<>>
    ELSE LET best == CHOOSE i \in todo :
                        \A j \in todo \ {i} : RanksBefore(query, i, j)
         IN  <<vectorstore[best]>> \o Ranked(query, todo \ {best})

\* vectorstore.similarity_search(query, k)
similarity_search(query, k) ==
    LET all == Ranked(query, 1..Len(vectorstore))
    IN  SubSeq(all, 1, IF k < Len(all) THEN k ELSE Len(all))

----------------------------------------------------------------------------
(* generate_response: the request it builds (lines 71-98)                  *)

\* lines 48-57
get_prompt == <<"\n", "You are a professional, friendly guest experience assistant.", "\n">>

\* line 85: the fixed minimum guest count
FixedGuests == 5

\* lines 78-83
CustomLinks(checkin, checkout) ==
    Join([i \in 1..Len(Areas) |->
            <<"[Explore ">> \o Areas[i] \o <<"](">>
                \o generate_airbnb_link(Areas[i], checkin, checkout, 2, 0, 0, 0)
                \o <<")">>],
         <<"\n">>)

SuggestionsIntro == "\n\nHere are some great options for you:\n"

\* the introductory line rendered whether or not a listing matched
SuggestionsAlways(listings) == <<SuggestionsIntro>> \o Join(listings, <<"\n">>)

\* line 86
Suggestions(listings) ==
    IF listings # <<>> THEN <<SuggestionsIntro>> \o Join(listings, <<"\n">>) ELSE <<>>

\* line 76
KbContext(docs) == Join([i \in 1..Len(docs) |-> docs[i].page_content], <<"\n\n">>)

\* line 93: the system turn
SystemContent(kb_context, custom_links, suggestions) ==
    get_prompt \o <<"\n\nUse this context if helpful:\n">> \o kb_context
        \o <<"\n\n">> \o custom_links \o <<"\n">> \o suggestions

\* a request that carries the last reply of the cycle along as chat history
BuildRequestWithHistory(user_message, today) ==
    [model |-> "gpt-3.5-turbo",
     system |-> SystemContent(KbContext(similarity_search(user_message, TopK)),
                              CustomLinks(AddDays(today, CheckinOffset),
                                          AddDays(today, CheckoutOffset)),
                              Suggestions(find_matching_listings(Cairo, FixedGuests))),
     user |-> (IF outbox # <<>> THEN outbox[Len(outbox)].msg.body ELSE <<>>)
                  \o user_message]

\* lines 71-98: the request sent for user_message on the day today
BuildRequest(user_message, today) ==
    LET checkin == AddDays(today, CheckinOffset)
        checkout == AddDays(today, CheckoutOffset)
        relevant_docs == similarity_search(user_message, TopK)
        listings == find_matching_listings(Cairo, FixedGuests)
    IN  [model |-> "gpt-3.5-turbo",
         system |-> SystemContent(KbContext(relevant_docs),
                                  CustomLinks(checkin, checkout),
                                  Suggestions(listings)),
         user |-> user_message]

\* what the generation service may answer: completions, an error, no completion
Completions ==
    {[kind |-> "ok", content |-> <<" ", "Checkout is at 11.", "\n">>],
     [kind |-> "error", content |-> <<>>],
     [kind |-> "empty", content |-> <<>>]}

----------------------------------------------------------------------------
(* State *)

NoMsg == [num |-> 0, from |-> "", subject |-> <<>>, body |-> <<>>]

NoRequest == [model |-> "", system |-> <<>>, user |-> <<>>]

NoArgs == [city |-> <<>>, guests |-> 0]

\* line 17
EMAIL_ADDRESS == "bot@example.com"

NoSmtp == [opened |-> 0, closed |-> 0]

\* line 135: the line printed for a received message names sender and subject
ReceivedLine(m) ==
    [kind |-> "received", num |-> m.num, from |-> m.from, subject |-> m.subject]

\* lines 139, 141: "Replied." and "Error: e" name neither; num records which
\* message the line was printed for
StatusLine(kind, m) == [kind |-> kind, num |-> m.num, from |-> "", subject |-> <<>>]

\* lines 146-149: an exception that leaves the while loop ends the process,
\* and the interpreter reports it on standard error; the report names no message
Traceback == [kind |-> "traceback", num |-> 0, from |-> "", subject |-> <<>>]

\* the catalogs the process may have loaded at startup
StartupCatalogs ==
    {<<Listing(1, <<"G", "i", "z", "a">>, 6, TRUE), Listing(2, Cairo, 4, TRUE)>>,
     <<Listing(1, Cairo, 6, FALSE), Listing(2, Cairo, 4, TRUE),
       Listing(3, <<"c", "a", "i", "r", "o">>, 6, TRUE), Listing(4, Cairo, 6, TRUE),
       Listing(5, Cairo, 6, TRUE)>>}

\* nothing fetched, printed or sent yet
MailQuiet ==
    /\ inbox = <<>>
    /\ seen = {}
    /\ batch = <<>>
    /\ idx = 1
    /\ cur = NoMsg
    /\ reply = <<>>
    /\ imapOpen = FALSE
    /\ log = <<>>
    /\ outbox = <<>>
    /\ handed = [n \in 1..MaxMsgs |-> 0]
    /\ sends = [n \in 1..MaxMsgs |-> 0]
    /\ svc = [n \in 1..MaxMsgs |-> "none"]
    /\ request = NoRequest
    /\ smtp = NoSmtp
    /\ passes = [n \in 1..MaxMsgs |-> 0]

\* lines 146-147: the process enters the loop
MailInit ==
    /\ MailQuiet
    /\ pc = "idle"

\* lines 16, 30, 35 all succeeded
GoodEnv == [key |-> TRUE, catalog |-> TRUE, index |-> TRUE]

NoLink == [area |-> <<>>, checkin |-> <<>>, checkout |-> <<>>]

Init ==
    /\ MailInit
    /\ env = GoodEnv
    /\ listings_data \in StartupCatalogs
    /\ vectorstore = KnowledgeBase
    /\ matchArgs = NoArgs
    /\ matchResult = <<>>
    /\ linkArgs = NoLink
    /\ linkResult = <<>>

----------------------------------------------------------------------------
(* The mailbox and the polling loop (lines 115-149)                        *)

\* a message is delivered to the mailbox, unseen
Arrive(m) ==
    /\ Len(inbox) < MaxMsgs
    /\ inbox' = Append(inbox, m)
    /\ UNCHANGED <<seen, pc, batch, idx, cur, reply, imapOpen, log, outbox, handed,
                   sends, svc, request, listings_data, matchArgs, matchResult,
                   startupVars, linkVars, smtp, passes>>

RECURSIVE Ascending(_, _)
\* the members of set from n up, in ascending order
Ascending(set, n) ==
    IF n > MaxMsgs THEN <<>>
    ELSE (IF n \in set THEN <<n>> ELSE <<>>) \o Ascending(set, n + 1)

\* line 120: mail.search(None, '(UNSEEN)')
SearchUnseen == Ascending({n \in 1..Len(inbox) : n \notin seen}, 1)

\* the flags after FETCH n (BODY.PEEK[]), which sets none
FetchPeek(n) == seen

\* line 122: the flags after FETCH n (RFC822), which sets \Seen
FetchRFC822(n) == seen \cup {n}

\* the per-message calls made without the try block
ExceptionEscapes == "crashed"

\* lines 136, 140-141: where the loop stands after the handler caught an exception
AfterHandledException == "loop"

\* an exception raised outside the try block leaves check_email and the while loop
AfterUnhandledException == "crashed"

\* lines 116-120
Poll ==
    /\ pc = "idle"
    /\ imapOpen' = TRUE
    /\ batch' = SearchUnseen
    /\ idx' = 1
    /\ pc' = "loop"
    /\ UNCHANGED <<inbox, seen, cur, reply, log, outbox, handed, sends, svc, request,
                   listings_data, matchArgs, matchResult,
                   startupVars, linkVars, smtp, passes>>

\* lines 122-135
FetchParse ==
    /\ pc = "loop"
    /\ idx <= Len(batch)
    /\ LET n == batch[idx]
           msg == inbox[n]
           body == ExtractBody(msg)
       IN  /\ seen' = FetchRFC822(n)
           /\ IF body.ok
              THEN /\ cur' = [num |-> n, from |-> msg.from, subject |-> msg.subject,
                              body |-> body.text]
                   /\ log' = Append(log, ReceivedLine(cur'))
                   /\ pc' = "generate"
              ELSE /\ pc' = AfterUnhandledException
                   /\ log' = Append(log, Traceback)
                   /\ UNCHANGED cur
    /\ UNCHANGED <<inbox, batch, idx, reply, imapOpen, outbox, handed, sends, svc,
                   request, listings_data, matchArgs, matchResult,
                   startupVars, linkVars, smtp, passes>>

\* line 137: one more call of generate_response for message n
CountPass(n) == [passes EXCEPT ![n] = IF @ < 2 THEN @ + 1 ELSE @]

\* an except clause that passes: nothing printed
HandleExceptionSilently ==
    /\ pc' = "loop"
    /\ idx' = idx + 1
    /\ UNCHANGED log

\* line 141 and the next iteration
HandleException ==
    /\ log' = Append(log, StatusLine("error", cur))
    /\ pc' = AfterHandledException
    /\ idx' = IF AfterHandledException = "loop" THEN idx + 1 ELSE idx

\* line 137 with the similarity search of line 75 raising
GenerateSearchFails ==
    /\ pc = "generate"
    /\ handed' = [handed EXCEPT ![cur.num] = @ + 1]
    /\ passes' = CountPass(cur.num)
    /\ svc' = [svc EXCEPT ![cur.num] = "failed"]
    /\ HandleException
    /\ UNCHANGED <<inbox, seen, batch, cur, reply, imapOpen, outbox, sends,
                   request, listings_data, matchArgs, matchResult,
                   startupVars, linkVars, smtp>>

\* line 137, lines 71-98: generate_response(body) builds its request and sends it
CallGenerate(today) ==
    /\ pc = "generate"
    /\ handed' = [handed EXCEPT ![cur.num] = @ + 1]
    /\ passes' = CountPass(cur.num)
    /\ request' = BuildRequest(cur.body, today)
    /\ matchArgs' = [city |-> Cairo, guests |-> FixedGuests]
    /\ matchResult' = find_matching_listings(Cairo, FixedGuests)
    /\ listings_data' = CatalogAfterMatching
    /\ pc' = "awaiting"
    /\ UNCHANGED <<inbox, seen, batch, idx, cur, reply, imapOpen, log, outbox, sends,
                   svc,
                   startupVars, linkVars, smtp>>

\* an empty list of choices taken for an empty reply
RaisesOnErrorOnly(completion) == completion.kind = "error"

\* lines 88-100: the call raises on a service error, and response.choices[0]
\* raises when the service returned no completion
Raises(completion) == completion.kind # "ok"

\* lines 88-100: the generation service answers
Completion(completion) ==
    /\ pc = "awaiting"
    /\ request' = NoRequest
    /\ svc' = [svc EXCEPT ![cur.num] = IF completion.kind = "ok" THEN "ok" ELSE "failed"]
    /\ IF Raises(completion)
       THEN /\ HandleException
            /\ UNCHANGED reply
       ELSE /\ reply' = Strip(completion.content)
            /\ pc' = "deliver"
            /\ UNCHANGED <<log, idx>>
    /\ UNCHANGED <<inbox, seen, batch, cur, imapOpen, outbox, handed, sends,
                   listings_data, matchArgs, matchResult,
                   startupVars, linkVars, smtp, passes>>

\* the reply sent under the original subject
ReplyMessageUnprefixed(to_email, subject, body) ==
    [From |-> EMAIL_ADDRESS, To |-> to_email, Subject |-> subject, body |-> body]

\* lines 103-108: the message send_email builds
ReplyMessage(to_email, subject, body) ==
    [From |-> EMAIL_ADDRESS, To |-> to_email, Subject |-> <<"Re: ">> \o subject,
     body |-> body]

\* lines 138-139, 110-113: send_email(from_email, subject, reply); the with
\* block closes the connection whether send_message returned or a call raised
Deliver(ok) ==
    /\ pc = "deliver"
    /\ smtp' = [opened |-> smtp.opened + 1, closed |-> smtp.closed + 1]
    /\ sends' = [sends EXCEPT ![cur.num] = @ + 1]
    /\ IF ok
       THEN /\ outbox' = Append(outbox,
                            [num |-> cur.num,
                             msg |-> ReplyMessage(cur.from, cur.subject, reply)])
            /\ log' = Append(log, StatusLine("replied", cur))
            /\ pc' = "loop"
            /\ idx' = idx + 1
       ELSE /\ HandleException
            /\ UNCHANGED outbox
    /\ UNCHANGED <<inbox, seen, batch, cur, reply, imapOpen, handed, svc, request,
                   listings_data, matchArgs, matchResult,
                   startupVars, linkVars, passes>>

\* line 143: check_email returns, its locals are gone, and the while loop of
\* lines 148-149 calls it again; the records of the cycle start afresh
Logout ==
    /\ pc = "loop"
    /\ idx > Len(batch)
    /\ imapOpen' = FALSE
    /\ pc' = "idle"
    /\ batch' = <<>>
    /\ idx' = 1
    /\ cur' = NoMsg
    /\ reply' = <<>>
    /\ request' = NoRequest
    /\ log' = <<>>
    /\ outbox' = <<>>
    /\ matchArgs' = NoArgs
    /\ matchResult' = <<>>
    /\ handed' = [n \in 1..MaxMsgs |-> 0]
    /\ sends' = [n \in 1..MaxMsgs |-> 0]
    /\ svc' = [n \in 1..MaxMsgs |-> "none"]
    /\ smtp' = NoSmtp
    /\ UNCHANGED <<inbox, seen, listings_data,
                   startupVars, linkVars, passes>>

\* the steps of the process
Step ==
    \/ Poll
    \/ FetchParse
    \/ GenerateSearchFails
    \/ \E today \in Dates : CallGenerate(today)
    \/ \E completion \in Completions : Completion(completion)
    \/ \E ok \in BOOLEAN : Deliver(ok)
    \/ Logout

Next ==
    \/ \E m \in Messages : Arrive(m)
    \/ Step

Spec == Init /\ [][Next]_vars

\* the single thread keeps running while it has a step to take
FairSpec == Spec /\ WF_vars(Step)

----------------------------------------------------------------------------
(* Module startup (lines 15-37) before the loop: the environment may lack  *)
(* the API key, the catalog file or the index directory                    *)

Environments == [key : BOOLEAN, catalog : BOOLEAN, index : BOOLEAN]

\* the module ran with one of its three checks left out
StartupOkNoKeyCheck(e) == e.catalog /\ e.index

\* lines 23-24, 30-31, 35-37: no statement of the module raised
StartupOk(e) == e.key /\ e.catalog /\ e.index

\* the interpreter is about to run the module
InitStartup ==
    /\ MailQuiet
    /\ pc = "start"
    /\ env \in Environments
    /\ listings_data = <<>>
    /\ vectorstore = <<>>
    /\ matchArgs = NoArgs
    /\ matchResult = <<>>
    /\ linkArgs = NoLink
    /\ linkResult = <<>>

\* lines 15-37 and 146-148: the statements of the module run in order; the
\* first that raises ends the process before the while loop is entered
ModuleStartup ==
    /\ pc = "start"
    /\ IF env.key /\ env.catalog
       THEN listings_data' \in StartupCatalogs
       ELSE UNCHANGED listings_data
    /\ vectorstore' = IF StartupOk(env) THEN KnowledgeBase ELSE vectorstore
    /\ pc' = IF StartupOk(env) THEN "idle" ELSE "aborted"
    /\ UNCHANGED <<inbox, seen, batch, idx, cur, reply, imapOpen, log, outbox,
                   handed, sends, svc, request, smtp, passes, env, matchArgs,
                   matchResult, linkVars>>

NextStartup ==
    \/ ModuleStartup
    \/ Next

SpecStartup == InitStartup /\ [][NextStartup]_vars

----------------------------------------------------------------------------
(* find_matching_listings on its own: any catalog, city and minimum        *)

QueryCities == {Cairo, <<"g", "i", "z", "a">>}

QueryGuests == {5, 6, 7}

InitMatch ==
    /\ MailInit
    /\ env = GoodEnv
    /\ listings_data \in Catalogs
    /\ vectorstore = KnowledgeBase
    /\ matchArgs = NoArgs
    /\ matchResult = <<>>
    /\ linkArgs = NoLink
    /\ linkResult = <<>>

\* a call find_matching_listings(city, guests)
CallFindMatching(city, guests) ==
    /\ matchArgs' = [city |-> city, guests |-> guests]
    /\ matchResult' = find_matching_listings(city, guests)
    /\ listings_data' = CatalogAfterMatching
    /\ UNCHANGED <<mailVars, startupVars, linkVars>>

NextMatch == \E city \in QueryCities, guests \in QueryGuests : CallFindMatching(city, guests)

SpecMatch == InitMatch /\ [][NextMatch]_vars

----------------------------------------------------------------------------
(* generate_airbnb_link on its own: area names and dates drawn, so that    *)
(* claims about the function see more than the three areas of the request  *)

\* the arguments of the call are drawn; the link is not built yet
InitLink ==
    /\ MailInit
    /\ env = GoodEnv
    /\ listings_data = <<>>
    /\ vectorstore = KnowledgeBase
    /\ matchArgs = NoArgs
    /\ matchResult = <<>>
    /\ \E area \in AreaNames, checkin \in Dates, n \in Nights :
          linkArgs = [area |-> area, checkin |-> checkin,
                      checkout |-> AddDays(checkin, n)]
    /\ linkResult = <<>>

\* the call generate_airbnb_link(area, checkin, checkout) with the default counts
CallGenerateLink ==
    /\ linkResult = <<>>
    /\ linkResult' = generate_airbnb_link(linkArgs.area, linkArgs.checkin,
                                          linkArgs.checkout, 2, 0, 0, 0)
    /\ UNCHANGED <<mailVars, startupVars, listings_data, matchArgs, matchResult,
                   linkArgs>>

NextLink == CallGenerateLink

SpecLink == InitLink /\ [][NextLink]_vars

----------------------------------------------------------------------------
(* Properties                                                              *)

\* message n was logged as failed in this poll cycle
Failed(n) == \E i \in 1..Len(log) : log[i].kind = "error" /\ log[i].num = n

\* a reply to message n was delivered in this poll cycle
Replied(n) == \E i \in 1..Len(outbox) : outbox[i].num = n

\* the for loop has gone through the whole batch
CycleDone == pc = "loop" /\ idx > Len(batch)

\* a and b are the same string up to the case of their letters
SameIgnoringCase(a, b) ==
    /\ Len(a) = Len(b)
    /\ \A i \in 1..Len(a) :
          \/ a[i] = b[i]
          \/ \E k \in 1..26 : {a[i], b[i]} = {UpperLetters[k], LowerLetters[k]}

\* record l is in city and sleeps at least n guests
Qualifies(l, city, n) == SameIgnoringCase(l.city_hint, city) /\ l.guests >= n

\* the k-th smallest member of a set of numbers
NthSmallest(S, k) == CHOOSE x \in S : Cardinality({y \in S : y < x}) = k - 1

\* C1: a generation or delivery failure of one message stops nothing: the
\* process crashes only on a message whose body does not decode, and every
\* message of the batch the loop has gone past was passed to the generator
\* and is either replied to or logged as failed.
C1_FailureIsolated ==
    /\ pc = "crashed" => ~ExtractBody(inbox[batch[idx]]).ok
    /\ \A j \in 1..Len(batch) :
          j < idx =>
              /\ handed[batch[j]] >= 1
              /\ ~Failed(batch[j]) => Replied(batch[j])

\* a finished cycle over three messages: the middle one failed, the first
\* and the last were replied to
C1_Witness ==
    /\ CycleDone
    /\ Len(batch) = 3
    /\ Failed(batch[2])
    /\ Replied(batch[1])
    /\ Replied(batch[3])

\* C2: a message whose generation or delivery failed is still unread when
\* its cycle ends, so the next unseen-search returns it again.
C2_FailedStaysUnread ==
    \A n \in 1..Len(inbox) :
        CycleDone /\ Failed(n) => n \notin seen /\ n \in Range(SearchUnseen)

\* C3: a fetched message whose body does not decode is logged with its
\* sender and subject, and the process goes on.
C3_MalformedIsRecoverable ==
    \A j \in 1..Len(batch) :
        LET n == batch[j] IN
        n \in seen /\ ~ExtractBody(inbox[n]).ok =>
            /\ pc # "crashed"
            /\ \E i, k \in 1..Len(log) :
                  /\ i < k
                  /\ log[i].num = n
                  /\ log[i].from = inbox[n].from
                  /\ log[i].subject = inbox[n].subject
                  /\ log[k].kind = "error"
                  /\ log[k].num = n

\* C4: the polling loop has no terminal state: whatever failed, the process
\* has a next step to take.
C4_NoTerminalState == ENABLED Step

\* C5: every unread message of the mailbox is eventually passed to
\* generate_response.
C5_EveryUnreadHanded ==
    \A n \in 1..MaxMsgs :
        (n <= Len(inbox) /\ n \notin seen) ~> (handed[n] >= 1)

\* C6: the body of a multipart message is its first text/plain part in walk
\* order; the body of any other message is its decoded payload.
C6_FirstPlainPart ==
    pc \in {"generate", "awaiting", "deliver"} =>
        LET msg == inbox[cur.num] IN
        IF msg.root.multipart
        THEN PlainParts(msg) # <<>> =>
                cur.body = Utf8Decode(PlainParts(msg)[1].payload).text
        ELSE cur.body = Utf8Decode(msg.root.payload).text

\* C7: find_matching_listings returns at most 3 entries, each from a record
\* of the city (ignoring case) with room for the guests, and they are the
\* first min(3, matches) such records in catalog order; none when none match.
C7_FirstThreeMatches ==
    matchArgs # NoArgs =>
        LET hits == SelectSeq(listings_data,
                        LAMBDA l : Qualifies(l, matchArgs.city, matchArgs.guests))
            want == IF Len(hits) < 3 THEN Len(hits) ELSE 3
        IN  /\ Len(matchResult) <= 3
            /\ Len(matchResult) = want
            /\ \A i \in 1..want :
                  /\ matchResult[i][1] = hits[i].name
                  /\ matchResult[i][3] = hits[i].rating
                  /\ matchResult[i][Len(matchResult[i])] = hits[i].id

\* a call on a catalog with more than three matching records
C7_Witness ==
    /\ matchArgs # NoArgs
    /\ Len(matchResult) = 3
    /\ Len(SelectSeq(listings_data,
            LAMBDA l : Qualifies(l, matchArgs.city, matchArgs.guests))) > 3

\* C8: every delivered reply goes to the sender of the message it answers
\* under the subject "Re: " and the original subject; send_email is called
\* exactly once for a message whose generation succeeded, after that
\* generation, and never for another message.
C8_ReplyToSender ==
    /\ \A i \in 1..Len(outbox) :
          LET o == outbox[i] IN
          /\ o.msg.To = inbox[o.num].from
          /\ o.msg.Subject = <<"Re: ">> \o inbox[o.num].subject
    /\ \A n \in 1..MaxMsgs :
          /\ sends[n] = IF svc[n] = "ok" /\ ~(pc = "deliver" /\ cur.num = n)
                        THEN 1 ELSE 0
          /\ Cardinality({i \in 1..Len(outbox) : outbox[i].num = n}) <= sends[n]
    /\ pc = "deliver" => svc[cur.num] = "ok"

\* two replies delivered in one cycle, one of them to a message whose
\* subject already began with "Re: "
C8_Witness ==
    /\ Len(outbox) = 2
    /\ \E i \in 1..2 : Len(outbox[i].msg.Subject) = 3

\* C9: when the generation call errors or returns no completion, no reply
\* is delivered for the message in that cycle and it is logged as failed.
C9_GenerationFailureSurfaced ==
    \A n \in 1..MaxMsgs :
        svc[n] = "failed" =>
            /\ sends[n] = 0
            /\ ~Replied(n)
            /\ Failed(n)
            /\ pc \in {"deliver", "awaiting", "generate"} => cur.num # n

\* a cycle in which the generation failed for one message and the loop went on
C9_Witness ==
    /\ \E n \in 1..MaxMsgs : svc[n] = "failed"
    /\ pc = "awaiting"

\* C10: the system turn holds exactly 3 area links, for Zamalek, Maadi and
\* Garden City in this order, and when no listing matched it ends with the
\* links: no introductory line and nothing in its place.
C10_LinksAndListings ==
    pc = "awaiting" =>
        LET sys == request.system
            starts == Positions(sys, "[Explore ")
            order == <<Zamalek, Maadi, GardenCity>>
            noMatch == \A i \in 1..Len(listings_data) :
                           ~Qualifies(listings_data[i], Cairo, 5)
        IN  /\ Cardinality(starts) = 3
            /\ \A k \in 1..3 :
                  LET p == NthSmallest(starts, k) IN
                  /\ SubSeq(sys, p + 1, p + Len(order[k])) = order[k]
                  /\ sys[p + Len(order[k]) + 1] = "]("
            /\ noMatch =>
                  /\ SuggestionsIntro \notin Range(sys)
                  /\ SubSeq(sys, Len(sys) - 1, Len(sys)) = <<")", "\n">>

\* a request built while no record of the catalog matches
C10_Witness ==
    /\ pc = "awaiting"
    /\ listings_data # <<>>
    /\ \A i \in 1..Len(listings_data) : ~Qualifies(listings_data[i], Cairo, 5)

\* C11: no connection outlives the call that opened it: when no poll cycle is
\* under way the mailbox connection has been logged out, whichever way the
\* cycle ended, and every delivery connection opened has been closed.
C11_ConnectionPerCall ==
    /\ pc \in {"idle", "crashed"} => ~imapOpen
    /\ smtp.opened = smtp.closed
    /\ smtp.opened = Len(SelectSeq(log, LAMBDA l : l.kind = "replied"))
                     + Cardinality({n \in 1..MaxMsgs : sends[n] >= 1 /\ ~Replied(n)})

\* C12: every failure while a message is processed leaves a line of output,
\* and within a poll cycle generate_response and send_email are each called at
\* most once per message.
C12_LoggedNotRetried ==
    /\ \A n \in 1..MaxMsgs :
          /\ handed[n] <= 1
          /\ sends[n] <= 1
          /\ sends[n] <= handed[n]
          /\ svc[n] = "failed" => Failed(n)
          /\ sends[n] = 1 /\ ~Replied(n) => Failed(n)
          /\ Failed(n) => svc[n] = "failed" \/ (sends[n] = 1 /\ ~Replied(n))
    /\ pc = "crashed" => log # <<>> /\ log[Len(log)] = Traceback

\* a cycle in which one message failed in generation and another in delivery
C12_Witness ==
    /\ CycleDone
    /\ \E n \in 1..MaxMsgs : svc[n] = "failed" /\ Failed(n) /\ sends[n] = 0
    /\ \E n \in 1..MaxMsgs : svc[n] = "ok" /\ sends[n] = 1 /\ ~Replied(n)

\* the unreserved characters of a URL: all others are escaped in a segment
Unreserved ==
    Range(UpperLetters) \cup Range(LowerLetters) \cup Range(DigitChar)
        \cup {"_", ".", "-", "~"}

\* a name with every character outside Unreserved percent-encoded
PercentEncoded(s) ==
    Concat([i \in 1..Len(s) |->
               IF s[i] \in Unreserved THEN <<s[i]>>
               ELSE LET bs == CharBytes(s[i])
                    IN  Concat([j \in 1..Len(bs) |-> PercentByte(bs[j])])])

\* the positions where part occurs in whole
Occurrences(whole, part) ==
    {i \in 1..(Len(whole) - Len(part) + 1) : SubSeq(whole, i, i + Len(part) - 1) = part}

\* yyyy-mm-dd with the values of the date
IsIsoOf(text, date) ==
    /\ Len(text) = 10
    /\ \A i \in {1, 2, 3, 4, 6, 7, 9, 10} : text[i] \in Range(DigitChar)
    /\ text[5] = "-" /\ text[8] = "-"
    /\ text = IsoFormat(date)

\* C13: the link holds the area once, with every character outside the
\* unreserved set percent-encoded, as the whole of the path segment that
\* follows Cairo--, and both dates in ISO form as the checkin and checkout
\* query values.
C13_AreaEncodedInSegment ==
    linkResult # <<>> =>
        LET url == linkResult
            enc == PercentEncoded(linkArgs.area)
            ends == {i \in 2..Len(url) : url[i] \in {"/", "/homes"}}
            segEnd == NthSmallest(ends, 1)
            ci == NthSmallest(Positions(url, "?checkin="), 1)
            co == NthSmallest(Positions(url, "&checkout="), 1)
        IN  /\ url[1] = "https://www.airbnb.com/s/Cairo--"
            /\ SubSeq(url, 2, segEnd - 1) = enc
            /\ url[segEnd] = "/homes"
            /\ Cardinality(Occurrences(url, enc)) = 1
            /\ Cardinality(Positions(url, "?checkin=")) = 1
            /\ Cardinality(Positions(url, "&checkout=")) = 1
            /\ ci = segEnd + 1
            /\ IsIsoOf(SubSeq(url, ci + 1, ci + 10), linkArgs.checkin)
            /\ co = ci + 11
            /\ IsIsoOf(SubSeq(url, co + 1, co + 10), linkArgs.checkout)
            /\ url[co + 11] = "&adults="

\* C14: when the API key is missing, the catalog cannot be read or the index
\* cannot be loaded, the process ends at startup: it never logs in to the
\* mailbox, fetches no message, calls the generator for none and sends nothing,
\* whatever arrives in the mailbox.
C14_StartupFailureFatal ==
    ~(env.key /\ env.catalog /\ env.index) =>
        /\ pc \in {"start", "aborted"}
        /\ ~imapOpen
        /\ seen = {}
        /\ batch = <<>>
        /\ request = NoRequest
        /\ outbox = <<>>
        /\ log = <<>>
        /\ smtp = NoSmtp
        /\ \A n \in 1..MaxMsgs : handed[n] = 0 /\ sends[n] = 0 /\ passes[n] = 0

\* the process ended at startup for want of the key, while mail waits unread
C14_Witness ==
    /\ pc = "aborted"
    /\ ~env.key /\ env.catalog /\ env.index
    /\ Len(inbox) >= 1

\* C16: once the module has loaded them, no step changes the catalog, its
\* records or their order, or the index: not a poll, a fetch, a call of
\* generate_response with its find_matching_listings, a delivery or a failure.
C16_CatalogAndIndexReadOnly ==
    [][pc # "start" => listings_data' = listings_data /\ vectorstore' = vectorstore]_vars

\* a cycle that replied to one message and failed on another, over the
\* catalog and the index as they were loaded
C16_Witness ==
    /\ CycleDone
    /\ \E n \in 1..MaxMsgs : Replied(n)
    /\ \E n \in 1..MaxMsgs : Failed(n)
    /\ matchResult # <<>>
    /\ listings_data \in StartupCatalogs
    /\ vectorstore = KnowledgeBase

\* C17: over the whole run a message is passed to generate_response at most
\* once and send_email is called for it at most once, after that one call: a
\* fetched message stays seen, so no later search returns it, whether it was
\* answered or failed.
C17_HandledAtMostOnce ==
    [][\A n \in 1..MaxMsgs :
          /\ handed'[n] > handed[n] => passes[n] = 0 /\ n \in seen
          /\ passes'[n] <= 1
          /\ sends'[n] > sends[n] => handed[n] = 1 /\ sends[n] = 0
          /\ Replied(n)' => sends'[n] = 1
                            /\ Cardinality({i \in 1..Len(outbox') : outbox'[i].num = n}) = 1
          /\ n \in seen => n \in seen' /\ n \notin Range(batch') \ Range(batch)
      ]_vars

\* a later cycle at work on a new message while an earlier one, passed to
\* generate_response in a cycle before, sits seen in the mailbox
C17_Witness ==
    /\ pc = "deliver"
    /\ \E n \in 1..MaxMsgs :
          /\ passes[n] = 1
          /\ handed[n] = 0
          /\ n \in seen
          /\ n \notin Range(batch)
          /\ cur.num > n

\* a multipart message none of whose parts is text/plain
NoPlainPart(m) ==
    /\ m.root.multipart
    /\ \A i \in 1..Len(Walk(m.root)) : Walk(m.root)[i].ctype # "text/plain"

\* C18: a multipart message with no text/plain part is fetched like any
\* other: it raises nothing, its body is the empty string, generate_response
\* is called with that empty string, and when generation and delivery
\* succeed the reply goes to its sender.
C18_NoPlainPartStillAnswered ==
    \A j \in 1..Len(batch) :
        LET n == batch[j]
            m == inbox[n]
        IN  NoPlainPart(m) /\ n \in seen =>
               /\ ~(pc = "crashed" /\ idx = j)
               /\ idx = j /\ pc \in {"generate", "awaiting", "deliver"} =>
                      cur.num = n /\ cur.body = <<>>
               /\ idx = j /\ pc = "awaiting" => request.user = <<>>
               /\ j < idx \/ (idx = j /\ pc \in {"awaiting", "deliver"}) => handed[n] = 1
               /\ j < idx /\ ~Failed(n) =>
                      \E i \in 1..Len(outbox) :
                          /\ outbox[i].num = n
                          /\ outbox[i].msg.To = m.from
               /\ Failed(n) => svc[n] = "failed" \/ sends[n] = 1

\* a reply went out to the sender of a multipart message with only an HTML part
C18_Witness ==
    \E i \in 1..Len(outbox) :
        /\ NoPlainPart(inbox[outbox[i].num])
        /\ outbox[i].msg.To = inbox[outbox[i].num].from
        /\ handed[outbox[i].num] = 1

\* the request that body, catalog and date determine with the loaded index,
\* whatever else the process has seen
RequestFrom(body, catalog, today) ==
    LET hits == SelectSeq(catalog, LAMBDA l : Qualifies(l, Cairo, 5))
        shown == [i \in 1..(IF Len(hits) < 3 THEN Len(hits) ELSE 3) |->
                     FormatListing(hits[i])]
    IN  [model |-> "gpt-3.5-turbo",
         system |-> SystemContent(KbContext(similarity_search(body, 3)),
                                  CustomLinks(AddDays(today, 3), AddDays(today, 6)),
                                  Suggestions(shown)),
         user |-> body]

\* C15: the request sent for a message is a function of that message's body,
\* the loaded catalog, the loaded index and the date alone: it is the same
\* whatever messages were processed before it, in this cycle or an earlier one.
C15_RequestIndependent ==
    pc = "awaiting" =>
        /\ cur.num = batch[idx]
        /\ \E today \in Dates :
              request = RequestFrom(ExtractBody(inbox[cur.num]).text, listings_data,
                                    today)

\* a request in flight after an earlier message of the same cycle was
\* answered and another was handled in a cycle before
C15_Witness ==
    /\ pc = "awaiting"
    /\ idx >= 2
    /\ Replied(batch[idx - 1])
    /\ \E n \in 1..MaxMsgs : passes[n] = 1 /\ n \notin Range(batch)
    /\ inbox[batch[idx - 1]] # inbox[cur.num]

====
